---- MODULE Spec2Model ----
(***************************************************************************)
(* A model of the effect-handler stack of funsor/handlers.py (Handler,     *)
(* OpRegistry, apply_stack, effectful) and of the two inference loops of   *)
(* examples/eeg_funsor_slds.py (SLDS.log_prob, SLDS.filter_and_predict).   *)
(***************************************************************************)
EXTENDS Integers, Sequences, FiniteSets, TLC

(* ---------------------------------------------------------------------- *)
(* Bounds of the model                                                     *)
(* ---------------------------------------------------------------------- *)
MaxDepth == 3
MaxRegistered == 2
MaxTypes == 2
MaxT == 4

(* ---------------------------------------------------------------------- *)
(* Values                                                                  *)
(* ---------------------------------------------------------------------- *)
\* Python's None, and the marker of a keyword argument that was not passed.
None == "None"
Absent == "<absent>"
NoError == "ok"

\* Handler objects.  "h" is a plain Handler, "reg" an OpRegistry; the other
\* three are user subclasses of Handler whose hooks mark the message with
\* stop, supply a value in process, or overwrite the value in postprocess.
Handlers == {"h", "reg", "stop", "val", "post"}

\* Operation kinds (the term_type handed to effectful), the optional names a
\* call can pass, positional arguments and the other keyword argument.
Kinds == {"sample", "param"}
CallNames == {Absent, "a"}
LabelNames == {None, "a"}
Args == {"x", "y"}
KwK == {Absent, "1"}
Overrides == {"ov1", "ov2"}

\* A keyword-argument dictionary with the optional keys "name" and "k".
KwArgs == [name : CallNames, k : KwK]

\* term_type itself (a class), as a registry key.
TypeKey(kind) == <<"type", kind, "-">>

\* term_type(name=n): an instance of the kind carrying the name.
Label(kind, n) == <<"label", kind, n>>

\* What OpRegistry.register is handed as a term type: an operation kind, or
\* the label that calls of the kind without a name carry.
TermKeys == {TypeKey(k) : k \in Kinds} \cup {Label(k, None) : k \in Kinds}

\* The result of applying a function to positional and keyword arguments.
Apply(f, args, kwargs) == <<f, args, kwargs.name, kwargs.k>>

NoValue == <<None>>
NoKw == [name |-> Absent, k |-> Absent]
NoMsg == [label |-> <<"-", "-", "-">>, fn |-> "-", args |-> "-",
          kwargs |-> [name |-> Absent, k |-> Absent], value |-> NoValue, stop |-> FALSE]

\* One entry of the record of hook and function invocations of a call: which
\* hook ran ("process", "postprocess" or "fn"), the stack position of the
\* handler it ran on (1 = pushed first; 0 for the wrapped function), the
\* arguments the wrapped function was invoked with, and the message's value
\* and stop mark when the invocation returned.
Event(ev, pos, m) == [ev |-> ev, pos |-> pos, args |-> "-", kwargs |-> NoKw,
                      value |-> m.value, stop |-> m.stop]
FnEvent(m) == [ev |-> "fn", pos |-> 0, args |-> m.args, kwargs |-> m.kwargs,
               value |-> m.value, stop |-> m.stop]

VARIABLES HANDLER_STACK, scopes, raised, terms_processed, terms_postprocessed,
          msg, log, result, last, slds

hvars == <<HANDLER_STACK, scopes, raised, terms_processed, terms_postprocessed,
           msg, log, result, last>>
vars == <<HANDLER_STACK, scopes, raised, terms_processed, terms_postprocessed,
          msg, log, result, last, slds>>

\* The empty mapping.
EmptyMap == [k \in {} |-> "ov1"]

\* The state of a run of SLDS.log_prob or SLDS.filter_and_predict; this is
\* the state before any run.  T is the number of observations, L the
\* moment_matching_lag, t the loop index, inputs the free names of log_prob,
\* reducedAt the places where each time step's pair of names was reduced,
\* the n... fields the lengths of the lists the method builds and ret the
\* lengths of the arrays it returns.
IdleSLDS == [pc |-> "idle", method |-> "-", T |-> 0, L |-> 0, smoothing |-> FALSE,
             fineTrans |-> FALSE, fineObs |-> FALSE, t |-> 0, inputs |-> {},
             reducedAt |-> <<>>, early |-> FALSE,
             npred |-> 0, nLL |-> 0, nfilt |-> 0, nsmooth |-> 0,
             ret |-> <<>>, err |-> NoError]

NoLast == [op |-> "init", h |-> "-", err |-> NoError, before |-> <<>>,
           kind |-> "-", args |-> "-", kwargs |-> NoKw,
           types |-> <<>>, post |-> FALSE, fn |-> "-"]

(* ---------------------------------------------------------------------- *)
(* Handler                                                                 *)
(* ---------------------------------------------------------------------- *)
\* Handler.__enter__: HANDLER_STACK.append(self)
Handler__enter__(stack, self) == Append(stack, self)

\* Handler.__exit__ without the identity assertion.
Handler__exit__Unchecked(stack, self) ==
    IF stack = <<>> THEN [stack |-> stack, err |-> "IndexError"]
    ELSE [stack |-> SubSeq(stack, 1, Len(stack) - 1), err |-> NoError]

\* Handler.__exit__ that never pops.
Handler__exit__NoPop(stack, self) ==
    IF stack = <<>> THEN [stack |-> stack, err |-> "IndexError"]
    ELSE IF stack[Len(stack)] # self THEN [stack |-> stack, err |-> "AssertionError"]
    ELSE [stack |-> stack, err |-> NoError]

\* Handler.__exit__: assert HANDLER_STACK[-1] is self; HANDLER_STACK.pop()
Handler__exit__(stack, self) ==
    IF stack = <<>> THEN [stack |-> stack, err |-> "IndexError"]
    ELSE IF stack[Len(stack)] # self THEN [stack |-> stack, err |-> "AssertionError"]
    ELSE [stack |-> SubSeq(stack, 1, Len(stack) - 1), err |-> NoError]

\* Handler.process: return msg
Handler_process(m) == m

\* Handler.postprocess: return msg
Handler_postprocess(m) == m

(* ---------------------------------------------------------------------- *)
(* OpRegistry                                                              *)
(* ---------------------------------------------------------------------- *)
\* OpRegistry.process: the override stored under msg["label"], if any,
\* applied to the message's args and kwargs, becomes the value.
OpRegistry_process(m) ==
    IF m.label \in DOMAIN terms_processed
    THEN [m EXCEPT !.value = Apply(terms_processed[m.label], m.args, m.kwargs)]
    ELSE m

\* OpRegistry.postprocess: the same with the postprocess mapping.
OpRegistry_postprocess(m) ==
    IF m.label \in DOMAIN terms_postprocessed
    THEN [m EXCEPT !.value = Apply(terms_postprocessed[m.label], m.args, m.kwargs)]
    ELSE m

\* handler.process(msg), dispatched on the handler object.
process(h, m) ==
    CASE h = "reg" -> OpRegistry_process(m)
      [] h = "stop" -> [m EXCEPT !.stop = TRUE]
      [] h = "val" -> [m EXCEPT !.value = <<"supplied">>]
      [] OTHER -> Handler_process(m)

\* handler.postprocess(msg), dispatched on the handler object.
postprocess(h, m) ==
    CASE h = "reg" -> OpRegistry_postprocess(m)
      [] h = "post" -> [m EXCEPT !.value = <<"overwritten">>]
      [] OTHER -> Handler_postprocess(m)

(* ---------------------------------------------------------------------- *)
(* apply_stack                                                             *)
(* ---------------------------------------------------------------------- *)
RECURSIVE ProcessFromNoBreak(_, _, _, _)
\* The process loop without the break on stop.
ProcessFromNoBreak(stack, i, m, lg) ==
    LET m2 == process(stack[i], m)
        lg2 == Append(lg, Event("process", i, m2))
    IN IF i = 1
       THEN [msg |-> m2, log |-> lg2, pointer |-> Len(stack) - i]
       ELSE ProcessFromNoBreak(stack, i - 1, m2, lg2)

RECURSIVE ProcessFrom(_, _, _, _)
\* for pointer, handler in enumerate(reversed(HANDLER_STACK)):
\*     handler.process(msg); if msg.get("stop"): break
\* i is the stack position of the handler, pointer = Len(stack) - i.
ProcessFrom(stack, i, m, lg) ==
    LET m2 == process(stack[i], m)
        lg2 == Append(lg, Event("process", i, m2))
    IN IF m2.stop \/ i = 1
       THEN [msg |-> m2, log |-> lg2, pointer |-> Len(stack) - i]
       ELSE ProcessFrom(stack, i - 1, m2, lg2)

\* The wrapped function invoked whatever the value is.
InvokeAlways(r) ==
    LET m2 == [r.msg EXCEPT !.value = Apply(r.msg.fn, r.msg.args, r.msg.kwargs)]
    IN [r EXCEPT !.msg = m2, !.log = Append(r.log, FnEvent(m2))]

\* if msg["value"] is None: msg["value"] = msg["fn"](*msg["args"], **msg["kwargs"])
InvokeIfNone(r) ==
    IF r.msg.value = NoValue
    THEN LET m2 == [r.msg EXCEPT !.value = Apply(r.msg.fn, r.msg.args, r.msg.kwargs)]
         IN [r EXCEPT !.msg = m2, !.log = Append(r.log, FnEvent(m2))]
    ELSE r

RECURSIVE PostprocessDown(_, _, _, _)
\* The postprocess loop running from the top of the stack downwards.
PostprocessDown(stack, i, lo, r) ==
    IF i < lo THEN r
    ELSE LET m2 == postprocess(stack[i], r.msg)
         IN PostprocessDown(stack, i - 1, lo,
                [r EXCEPT !.msg = m2, !.log = Append(r.log, Event("postprocess", i, m2))])

\* The postprocess pass over the same handlers, most recently pushed first.
PostprocessReversed(stack, i, r) == PostprocessDown(stack, Len(stack), i, r)

RECURSIVE PostprocessFrom(_, _, _)
\* for handler in HANDLER_STACK[-pointer-1:]: handler.postprocess(msg)
PostprocessFrom(stack, i, r) ==
    IF i > Len(stack) THEN r
    ELSE LET m2 == postprocess(stack[i], r.msg)
         IN PostprocessFrom(stack, i + 1,
                [r EXCEPT !.msg = m2, !.log = Append(r.log, Event("postprocess", i, m2))])

\* apply_stack(msg) on a non-empty stack.
apply_stack(stack, m) ==
    LET p == ProcessFrom(stack, Len(stack), m, <<>>)
        f == InvokeIfNone(p)
    IN PostprocessFrom(stack, Len(stack) - f.pointer, f)

(* ---------------------------------------------------------------------- *)
(* effectful                                                               *)
(* ---------------------------------------------------------------------- *)
\* kwargs.pop("name", None): the value popped.
PopName(kwargs) == IF kwargs.name = Absent THEN None ELSE kwargs.name

\* effectful(term_type)(fn) that builds a message also on an empty stack.
effectful_AlwaysMessage(stack, kind, fn, args, kwargs) ==
    LET initial_msg == [label |-> Label(kind, PopName(kwargs)), fn |-> fn, args |-> args,
                        kwargs |-> [kwargs EXCEPT !.name = Absent],
                        value |-> NoValue, stop |-> FALSE]
        r == IF stack = <<>>
             THEN InvokeIfNone([msg |-> initial_msg, log |-> <<>>, pointer |-> 0])
             ELSE apply_stack(stack, initial_msg)
    IN [value |-> r.msg.value, msg |-> r.msg, log |-> r.log]

\* effectful(term_type)(fn)(*args, **kwargs): the _fn of lines 86-99.
effectful(stack, kind, fn, args, kwargs) ==
    IF stack = <<>>
    THEN LET direct == [NoMsg EXCEPT !.fn = fn, !.args = args, !.kwargs = kwargs,
                                     !.value = Apply(fn, args, kwargs)]
         IN [value |-> direct.value, msg |-> NoMsg, log |-> <<FnEvent(direct)>>]
    ELSE LET initial_msg == [label |-> Label(kind, PopName(kwargs)), fn |-> fn, args |-> args,
                             kwargs |-> [kwargs EXCEPT !.name = Absent],
                             value |-> NoValue, stop |-> FALSE]
             r == apply_stack(stack, initial_msg)
         IN [value |-> r.msg.value, msg |-> r.msg, log |-> r.log]

(* ---------------------------------------------------------------------- *)
(* OpRegistry.register                                                     *)
(* ---------------------------------------------------------------------- *)
RECURSIVE RegisterLoopNoAssert(_, _, _, _, _, _)
\* The registration loop without the "cannot override" assertions.
RegisterLoopNoAssert(types, i, tp, tpp, post, fn) ==
    IF i > Len(types) THEN [processed |-> tp, postprocessed |-> tpp, err |-> NoError]
    ELSE IF post
         THEN RegisterLoopNoAssert(types, i + 1, tp, (types[i] :> fn) @@ tpp, post, fn)
         ELSE RegisterLoopNoAssert(types, i + 1, (types[i] :> fn) @@ tp, tpp, post, fn)

RECURSIVE RegisterLoopBoth(_, _, _, _, _, _)
\* The registration loop that, with post set, stores fn in both mappings.
RegisterLoopBoth(types, i, tp, tpp, post, fn) ==
    IF i > Len(types) THEN [processed |-> tp, postprocessed |-> tpp, err |-> NoError]
    ELSE IF post
         THEN IF types[i] \in DOMAIN tpp
              THEN [processed |-> tp, postprocessed |-> tpp, err |-> "AssertionError"]
              ELSE RegisterLoopBoth(types, i + 1, (types[i] :> fn) @@ tp,
                                    (types[i] :> fn) @@ tpp, post, fn)
         ELSE IF types[i] \in DOMAIN tp
              THEN [processed |-> tp, postprocessed |-> tpp, err |-> "AssertionError"]
              ELSE RegisterLoopBoth(types, i + 1, (types[i] :> fn) @@ tp, tpp, post, fn)

RECURSIVE RegisterLoop(_, _, _, _, _, _)
\* for term_type in term_types: assert term_type not in the mapping chosen by
\* post; mapping[term_type] = fn.  A failed assertion leaves the loop at once.
RegisterLoop(types, i, tp, tpp, post, fn) ==
    IF i > Len(types) THEN [processed |-> tp, postprocessed |-> tpp, err |-> NoError]
    ELSE IF post
         THEN IF types[i] \in DOMAIN tpp
              THEN [processed |-> tp, postprocessed |-> tpp, err |-> "AssertionError"]
              ELSE RegisterLoop(types, i + 1, tp, (types[i] :> fn) @@ tpp, post, fn)
         ELSE IF types[i] \in DOMAIN tp
              THEN [processed |-> tp, postprocessed |-> tpp, err |-> "AssertionError"]
              ELSE RegisterLoop(types, i + 1, (types[i] :> fn) @@ tp, tpp, post, fn)

\* The argument lists register is called with: 1..MaxTypes term types.
TypeLists == UNION {[1..n -> TermKeys] : n \in 1..MaxTypes}

Registered == Cardinality(DOMAIN terms_processed) + Cardinality(DOMAIN terms_postprocessed)

(* ---------------------------------------------------------------------- *)
(* Actions                                                                 *)
(* ---------------------------------------------------------------------- *)
Init ==
    /\ HANDLER_STACK = <<>>
    /\ scopes = <<>>
    /\ raised = NoError
    /\ terms_processed = EmptyMap
    /\ terms_postprocessed = EmptyMap
    /\ msg = NoMsg
    /\ log = <<>>
    /\ result = NoValue
    /\ last = NoLast
    /\ slds = IdleSLDS

\* An open scope or call: via tells what opened it (a with statement or
\* Handler.__call__, or a call of a function wrapped by default_handler), h
\* is its handler, entry the stack when it was opened, pushed whether it
\* pushed h, and seen the stack its body, the wrapped function, starts with.
Frame(via, h, entry, pushed, seen) ==
    [via |-> via, h |-> h, entry |-> entry, pushed |-> pushed, seen |-> seen]

\* Control leaves a frame: the with statement of a frame that pushed its
\* handler runs __exit__; a call that opened no with statement just returns.
ExitFrame(stack, frame) ==
    IF frame.pushed THEN Handler__exit__(stack, frame.h)
    ELSE [stack |-> stack, err |-> NoError]

\* default_handler that installs the handler whatever the stack holds.
DefaultInstallsAlways(stack, fn) == fn \notin Handlers

\* if not HANDLER_STACK and not isinstance(fn, Handler)
DefaultInstalls(stack, fn) == stack = <<>> /\ fn \notin Handlers

\* The message, the record of invocations and the return value belong to one
\* effectful call; the next operation starts without them.
ClearCall == msg' = NoMsg /\ log' = <<>> /\ result' = NoValue

\* `with h:` is entered, or h(*args) is called (Handler.__call__ opens
\* `with self:` around self.fn): __enter__ pushes h.
EnterScope(h) ==
    /\ raised = NoError
    /\ Len(HANDLER_STACK) < MaxDepth
    /\ Len(scopes) < MaxDepth
    /\ HANDLER_STACK' = Handler__enter__(HANDLER_STACK, h)
    /\ scopes' = Append(scopes, Frame("with", h, HANDLER_STACK, TRUE,
                                        Handler__enter__(HANDLER_STACK, h)))
    /\ last' = [NoLast EXCEPT !.op = "enter", !.h = h, !.before = HANDLER_STACK]
    /\ ClearCall
    /\ UNCHANGED <<raised, terms_processed, terms_postprocessed, slds>>

\* The body of the innermost open scope ends normally: __exit__ runs.
LeaveScope ==
    /\ raised = NoError
    /\ scopes # <<>>
    /\ LET top == scopes[Len(scopes)]
           r == ExitFrame(HANDLER_STACK, top)
       IN /\ HANDLER_STACK' = r.stack
          /\ raised' = r.err
          /\ last' = [NoLast EXCEPT !.op = "leave", !.h = top.h, !.err = r.err,
                                    !.before = HANDLER_STACK]
    /\ scopes' = SubSeq(scopes, 1, Len(scopes) - 1)
    /\ ClearCall
    /\ UNCHANGED <<terms_processed, terms_postprocessed, slds>>

\* The body of the innermost open scope raises an error.
RaiseInBody ==
    /\ raised = NoError
    /\ scopes # <<>>
    /\ raised' = "Error"
    /\ last' = [NoLast EXCEPT !.op = "raise", !.before = HANDLER_STACK]
    /\ ClearCall
    /\ UNCHANGED <<HANDLER_STACK, scopes, terms_processed, terms_postprocessed, slds>>

\* An error leaves the innermost open scope: the with statement runs __exit__
\* and, as __exit__ returns None, the error goes on to the enclosing scope.
\* An error raised by __exit__ itself replaces it.
Unwind ==
    /\ raised # NoError
    /\ scopes # <<>>
    /\ LET top == scopes[Len(scopes)]
           r == ExitFrame(HANDLER_STACK, top)
       IN /\ HANDLER_STACK' = r.stack
          /\ raised' = IF r.err # NoError THEN r.err ELSE raised
          /\ last' = [NoLast EXCEPT !.op = "unwind", !.h = top.h, !.err = r.err,
                                    !.before = HANDLER_STACK]
    /\ scopes' = SubSeq(scopes, 1, Len(scopes) - 1)
    /\ ClearCall
    /\ UNCHANGED <<terms_processed, terms_postprocessed, slds>>

\* The error is caught by the code around the innermost open scope (or ends
\* at the top level).
Catch ==
    /\ raised # NoError
    /\ raised' = NoError
    /\ last' = [NoLast EXCEPT !.op = "catch", !.before = HANDLER_STACK]
    /\ ClearCall
    /\ UNCHANGED <<HANDLER_STACK, scopes, terms_processed, terms_postprocessed, slds>>

\* h.__enter__() called directly, outside any with statement.
ManualEnter(h) ==
    /\ raised = NoError
    /\ Len(HANDLER_STACK) < MaxDepth
    /\ HANDLER_STACK' = Handler__enter__(HANDLER_STACK, h)
    /\ last' = [NoLast EXCEPT !.op = "manual_enter", !.h = h, !.before = HANDLER_STACK]
    /\ ClearCall
    /\ UNCHANGED <<scopes, raised, terms_processed, terms_postprocessed, slds>>

\* h.__exit__() called directly, whatever the stack holds.
ManualExit(h) ==
    /\ raised = NoError
    /\ LET r == Handler__exit__(HANDLER_STACK, h)
       IN /\ HANDLER_STACK' = r.stack
          /\ raised' = r.err
          /\ last' = [NoLast EXCEPT !.op = "manual_exit", !.h = h, !.err = r.err,
                                    !.before = HANDLER_STACK]
    /\ ClearCall
    /\ UNCHANGED <<scopes, terms_processed, terms_postprocessed, slds>>

\* A call of default_handler(h)(fn): `with handler:` is opened around the
\* call of fn when the stack is empty and fn is no Handler, otherwise fn is
\* called as it is.  A Handler fn starts by opening its own scope (__call__).
DefaultCall(h, fn) ==
    /\ raised = NoError
    /\ LET installs == DefaultInstalls(HANDLER_STACK, fn)
           seen == IF installs THEN Handler__enter__(HANDLER_STACK, h) ELSE HANDLER_STACK
           frame == Frame("default", h, HANDLER_STACK, installs, seen)
       IN /\ Len(seen) + (IF fn \in Handlers THEN 1 ELSE 0) <= MaxDepth
          /\ Len(scopes) + (IF fn \in Handlers THEN 2 ELSE 1) <= MaxDepth
          /\ HANDLER_STACK' = IF fn \in Handlers THEN Handler__enter__(seen, fn) ELSE seen
          /\ scopes' = IF fn \in Handlers
                       THEN scopes \o <<frame, Frame("with", fn, seen, TRUE,
                                                     Handler__enter__(seen, fn))>>
                       ELSE Append(scopes, frame)
    /\ last' = [NoLast EXCEPT !.op = "default_call", !.h = h, !.fn = fn,
                              !.before = HANDLER_STACK]
    /\ ClearCall
    /\ UNCHANGED <<raised, terms_processed, terms_postprocessed, slds>>

\* A call of effectful(kind)(fn) with the given arguments.
EffectfulCall(kind, args, kwargs) ==
    /\ raised = NoError
    /\ LET r == effectful(HANDLER_STACK, kind, "fn", args, kwargs)
       IN /\ msg' = r.msg
          /\ log' = r.log
          /\ result' = r.value
    /\ last' = [NoLast EXCEPT !.op = "call", !.kind = kind, !.args = args,
                              !.kwargs = kwargs, !.before = HANDLER_STACK]
    /\ UNCHANGED <<HANDLER_STACK, scopes, raised, terms_processed, terms_postprocessed, slds>>

\* OpRegistry.register(*types, post=post)(fn), applied as a decorator when
\* the module that defines fn is loaded, outside every handler scope.
Register(types, post, fn) ==
    /\ raised = NoError
    /\ scopes = <<>>
    /\ Registered < MaxRegistered
    /\ LET r == RegisterLoop(types, 1, terms_processed, terms_postprocessed, post, fn)
       IN /\ terms_processed' = r.processed
          /\ terms_postprocessed' = r.postprocessed
          /\ raised' = r.err
          /\ last' = [NoLast EXCEPT !.op = "register", !.err = r.err, !.types = types,
                                    !.post = post, !.fn = fn, !.before = HANDLER_STACK]
    /\ ClearCall
    /\ UNCHANGED <<HANDLER_STACK, scopes, slds>>

\* Programs that nest handler scopes properly and make effectful calls.
Next ==
    \/ \E h \in Handlers : EnterScope(h)
    \/ LeaveScope
    \/ RaiseInBody
    \/ Unwind
    \/ Catch
    \/ \E kind \in Kinds, args \in Args, kwargs \in KwArgs : EffectfulCall(kind, args, kwargs)

Spec == Init /\ [][Next]_vars

\* The functions default_handler wraps: a plain function or a Handler.
DefaultFns == {"function", "h", "post"}

\* Programs that call functions wrapped by default_handler inside and outside
\* properly nested handler scopes.
NextDefault ==
    \/ \E h \in {"h", "reg"}, fn \in DefaultFns : DefaultCall(h, fn)
    \/ \E h \in {"h", "val"} : EnterScope(h)
    \/ LeaveScope
    \/ RaiseInBody
    \/ Unwind
    \/ Catch

SpecDefault == Init /\ [][NextDefault]_vars

\* Programs that call __enter__ and __exit__ directly, in any order.
NextManual ==
    \/ \E h \in Handlers : ManualEnter(h)
    \/ \E h \in Handlers : ManualExit(h)
    \/ Catch

SpecManual == Init /\ [][NextManual]_vars

\* Programs that register overrides and call effectful functions under
\* OpRegistry scopes.
NextRegistry ==
    \/ \E types \in TypeLists, post \in BOOLEAN, fn \in Overrides : Register(types, post, fn)
    \/ EnterScope("reg")
    \/ LeaveScope
    \/ Catch
    \/ \E kind \in Kinds, name \in CallNames :
          EffectfulCall(kind, "x", [name |-> name, k |-> "1"])

SpecRegistry == Init /\ [][NextRegistry]_vars

(* ---------------------------------------------------------------------- *)
(* SLDS.log_prob and SLDS.filter_and_predict                               *)
(* ---------------------------------------------------------------------- *)
\* funsor.Variable('s_t', ...).name and funsor.Variable('x_t', ...).name
SName(t) == <<"s", t>>
XName(t) == <<"x", t>>

\* Adding a term to log_prob: the sum's free names are those of both terms.
AddTerm(inputs, names) == inputs \cup names

\* log_prob.reduce(ops.logaddexp, names): the names reduced leave the inputs.
Reduce(inputs, names) == inputs \ names

\* dist.Categorical(trans_probs(s=s_vars[t - 1]), value=s_vars[t]); s_vars[-1]
\* is a constant Tensor, not a Variable.
CategoricalNames(t) == {SName(t)} \cup (IF t > 0 THEN {SName(t - 1)} ELSE {})

\* self.x_init_mvn(value=x_vars[0]) at t = 0, otherwise
\* x_trans_dist(s=s_vars[t], x=x_vars[t - 1], y=x_vars[t]); the transition
\* depends on s only when event_dims holds "s".
TransitionNames(t, fineTrans) ==
    IF t = 0 THEN {XName(0)}
    ELSE {XName(t - 1), XName(t)} \cup (IF fineTrans THEN {SName(t)} ELSE {})

\* y_dist(s=s_vars[t], x=x_vars[t], y=y)
ObservationNames(t, fineObs) == {XName(t)} \cup (IF fineObs THEN {SName(t)} ELSE {})

\* The lagged reduction that starts one step late.
LoopReducesLate(t, L) == t > L

\* if t > self.moment_matching_lag - 1
LoopReduces(t, L) == t > L - 1

\* The time step whose pair the loop reduces at step t.
LoopIndex(t, L) == t - L

\* The time step whose pair the final loop reduces at its step t.
FinalIndex(T, L, t) == T - L + t

\* torch.stack of a list of n tensors: the new leading length; empty lists
\* are refused (-1).
Stack(n) == IF n = 0 THEN -1 ELSE n

\* torch.cat along the time axis.
Cat(a, b) == IF a < 0 \/ b < 0 THEN -1 ELSE a + b

\* The leading length of a - b under broadcasting (-1: shapes do not match).
Broadcast(a, b) ==
    IF a < 0 \/ b < 0 THEN -1
    ELSE IF a = b THEN a
    ELSE IF a = 1 THEN b
    ELSE IF b = 1 THEN a
    ELSE -1

\* The predictive means without the row for the first observation.
PredictiveMeansUnpadded(npred) == Stack(npred)

\* predictive_means = torch.cat([pred_mean_init, predictive_means], dim=-2)
\* where pred_mean_init has one row and predictive_means one row per
\* predictive distribution.
PredictiveMeans(npred) == Cat(1, Stack(npred))

\* predictive_mse = (predictive_means - data).pow(2.0).mean(-1)
PredictiveMSE(npred, T) == Broadcast(PredictiveMeans(npred), T)

\* slds.log_prob(data) is called on T observations.
StartLogProb(T, L, fineTrans, fineObs) ==
    /\ slds.pc \in {"idle", "done"}
    /\ fineTrans \/ fineObs
    /\ slds' = [IdleSLDS EXCEPT !.pc = "loop", !.method = "log_prob", !.T = T, !.L = L,
                                !.fineTrans = fineTrans, !.fineObs = fineObs,
                                !.reducedAt = [i \in 1..T |-> <<>>]]
    /\ UNCHANGED hvars

\* One iteration of `for t, y in enumerate(data)` in log_prob.  The pair of
\* time step i is kept in reducedAt[i + 1].
LogProbStep ==
    /\ slds.pc = "loop"
    /\ slds.method = "log_prob"
    /\ slds.t < slds.T
    /\ LET t == slds.t
           i == LoopIndex(t, slds.L)
           added == AddTerm(AddTerm(slds.inputs, CategoricalNames(t)),
                            TransitionNames(t, slds.fineTrans))
           names == {SName(i), XName(i)}
           reduced == IF LoopReduces(t, slds.L) THEN Reduce(added, names) ELSE added
       IN slds' = [slds EXCEPT
                     !.inputs = AddTerm(reduced, ObservationNames(t, slds.fineObs)),
                     !.reducedAt = IF LoopReduces(t, slds.L)
                                   THEN [slds.reducedAt EXCEPT ![i + 1] = Append(@, <<"loop", t>>)]
                                   ELSE slds.reducedAt,
                     !.early = slds.early \/ (LoopReduces(t, slds.L) /\ ~(names \subseteq added)),
                     !.t = t + 1]
    /\ UNCHANGED hvars

\* The loop over the data is over: T = data.shape[0] and the final loop starts.
LogProbEndLoop ==
    /\ slds.pc = "loop"
    /\ slds.method = "log_prob"
    /\ slds.t = slds.T
    /\ slds' = [slds EXCEPT !.pc = "final", !.t = 0]
    /\ UNCHANGED hvars

\* One iteration of `for t in range(self.moment_matching_lag)`.  A negative
\* index finds no Variable in s_vars / x_vars and the lookup raises.
LogProbFinalStep ==
    /\ slds.pc = "final"
    /\ slds.t < slds.L
    /\ LET i == FinalIndex(slds.T, slds.L, slds.t)
           names == {SName(i), XName(i)}
       IN IF i < 0 \/ i >= slds.T
          THEN slds' = [slds EXCEPT !.pc = "done", !.err = "LookupError"]
          ELSE slds' = [slds EXCEPT
                          !.inputs = Reduce(slds.inputs, names),
                          !.reducedAt = [slds.reducedAt EXCEPT ![i + 1] = Append(@, <<"final", slds.t>>)],
                          !.early = slds.early \/ ~(names \subseteq slds.inputs),
                          !.t = slds.t + 1]
    /\ UNCHANGED hvars

\* assert not log_prob.inputs, 'unexpected free variables remain'
LogProbReturn ==
    /\ slds.pc = "final"
    /\ slds.t = slds.L
    /\ slds' = [slds EXCEPT !.pc = "done",
                            !.err = IF slds.inputs # {} THEN "AssertionError" ELSE NoError]
    /\ UNCHANGED hvars

\* slds.filter_and_predict(data, smoothing) is called on T observations.
StartFilter(T, smoothing, fineTrans, fineObs) ==
    /\ slds.pc \in {"idle", "done"}
    /\ fineTrans \/ fineObs
    /\ slds' = [IdleSLDS EXCEPT !.pc = "loop", !.method = "filter_and_predict", !.T = T,
                                !.L = 1, !.smoothing = smoothing,
                                !.fineTrans = fineTrans, !.fineObs = fineObs,
                                !.reducedAt = [i \in 1..T |-> <<>>]]
    /\ UNCHANGED hvars

\* One iteration of `for t, y in enumerate(data)` in filter_and_predict.
FilterStep ==
    /\ slds.pc = "loop"
    /\ slds.method = "filter_and_predict"
    /\ slds.t < slds.T
    /\ LET t == slds.t
           added == AddTerm(AddTerm(slds.inputs, CategoricalNames(t)),
                            TransitionNames(t, slds.fineTrans))
           names == {SName(t - 1), XName(t - 1)}
           reduced == IF t > 0 THEN Reduce(added, names) ELSE added
       IN slds' = [slds EXCEPT
                     !.inputs = AddTerm(reduced, ObservationNames(t, slds.fineObs)),
                     !.reducedAt = IF t > 0
                                   THEN [slds.reducedAt EXCEPT ![t] = Append(@, <<"loop", t>>)]
                                   ELSE slds.reducedAt,
                     !.npred = IF t > 0 THEN slds.npred + 1 ELSE slds.npred,
                     !.nLL = IF t > 0 THEN slds.nLL + 1 ELSE slds.nLL,
                     !.nfilt = IF slds.smoothing THEN slds.nfilt + 1 ELSE slds.nfilt,
                     !.t = t + 1]
    /\ UNCHANGED hvars

\* The loop over the data is over; with smoothing the backward recursion
\* starts from smoothing_dists = [filtering_dists[-1]] at t = T - 2.
FilterEndLoop ==
    /\ slds.pc = "loop"
    /\ slds.method = "filter_and_predict"
    /\ slds.t = slds.T
    /\ slds' = IF slds.smoothing
               THEN [slds EXCEPT !.pc = "smooth", !.t = slds.T - 2, !.nsmooth = 1]
               ELSE [slds EXCEPT !.pc = "shapes"]
    /\ UNCHANGED hvars

\* One iteration of `for t in reversed(range(T - 1))`: reads
\* predictive_dists[t] and filtering_dists[t], appends to smoothing_dists.
SmoothStep ==
    /\ slds.pc = "smooth"
    /\ slds.t >= 0
    /\ slds' = IF slds.t >= slds.npred \/ slds.t >= slds.nfilt
               THEN [slds EXCEPT !.pc = "done", !.err = "IndexError"]
               ELSE [slds EXCEPT !.nsmooth = slds.nsmooth + 1, !.t = slds.t - 1]
    /\ UNCHANGED hvars

\* The backward recursion is over.
SmoothEnd ==
    /\ slds.pc = "smooth"
    /\ slds.t < 0
    /\ slds' = [slds EXCEPT !.pc = "shapes"]
    /\ UNCHANGED hvars

\* Lines 184-215: the arrays are stacked and returned.
FilterReturn ==
    /\ slds.pc = "shapes"
    /\ LET mse == PredictiveMSE(slds.npred, slds.T)
           pm == PredictiveMeans(slds.npred)
           sm == Stack(slds.nsmooth)
           ret == IF slds.smoothing THEN <<mse, slds.nLL, pm, sm>> ELSE <<mse, slds.nLL>>
       IN slds' = IF \E k \in 1..Len(ret) : ret[k] < 0
                  THEN [slds EXCEPT !.pc = "done", !.err = "RuntimeError"]
                  ELSE [slds EXCEPT !.pc = "done", !.ret = ret]
    /\ UNCHANGED hvars

NextSLDS ==
    \/ \E T \in 1..MaxT, L \in 1..MaxT, ft \in BOOLEAN, fo \in BOOLEAN : StartLogProb(T, L, ft, fo)
    \/ LogProbStep
    \/ LogProbEndLoop
    \/ LogProbFinalStep
    \/ LogProbReturn
    \/ \E T \in 1..MaxT, sm \in BOOLEAN, ft \in BOOLEAN, fo \in BOOLEAN : StartFilter(T, sm, ft, fo)
    \/ FilterStep
    \/ FilterEndLoop
    \/ SmoothStep
    \/ SmoothEnd
    \/ FilterReturn

SpecSLDS == Init /\ [][NextSLDS]_vars

(* ---------------------------------------------------------------------- *)
(* Properties of the handler stack                                         *)
(* ---------------------------------------------------------------------- *)
Range(seq) == {seq[i] : i \in 1..Len(seq)}
EventsOf(ev) == {i \in 1..Len(log) : log[i].ev = ev}
StackedCall == last.op = "call" /\ HANDLER_STACK # <<>>

\* C1: in an effectful call on a stack of N >= 1 handlers, process runs on the
\* handlers from the most recently pushed downwards, then postprocess runs on
\* exactly the handlers that were processed, in push order, and every process
\* invocation comes before every postprocess invocation.
C1_ProcessThenPostprocessOrder ==
    StackedCall =>
        LET N == Len(HANDLER_STACK)
            np == Cardinality(EventsOf("process"))
        IN /\ np >= 1
           /\ np <= N
           /\ \A i \in 1..np : log[i].ev = "process" /\ log[i].pos = N - i + 1
           /\ Cardinality(EventsOf("postprocess")) = np
           /\ \A j \in 1..np :
                 /\ log[Len(log) - np + j].ev = "postprocess"
                 /\ log[Len(log) - np + j].pos = N - np + j
           /\ \A i \in EventsOf("process"), j \in EventsOf("postprocess") : i < j

\* A call on two or more handlers all of which were processed.
C1_Witness ==
    /\ StackedCall
    /\ Len(HANDLER_STACK) >= 2
    /\ Cardinality(EventsOf("process")) = Len(HANDLER_STACK)
    /\ Cardinality(Range(HANDLER_STACK)) >= 2

\* C2: when a handler's process marks the message with stop, no handler
\* pushed before it has process or postprocess invoked in that call, and the
\* stopping handler and all handlers pushed after it get postprocess.
C2_StopSuppressesLowerHandlers ==
    StackedCall =>
        \A i \in EventsOf("process") :
            log[i].stop =>
                /\ \A j \in 1..Len(log) : log[j].ev # "fn" => log[j].pos >= log[i].pos
                /\ \A p \in log[i].pos..Len(HANDLER_STACK) :
                      \E j \in EventsOf("postprocess") : log[j].pos = p

\* A call in which a handler with others below and above it marked stop.
C2_Witness ==
    /\ StackedCall
    /\ \E i \in EventsOf("process") :
          log[i].stop /\ log[i].pos >= 2 /\ log[i].pos < Len(HANDLER_STACK)

\* C3: on a non-empty stack the wrapped function is invoked exactly once when
\* the value is still None after the process pass and not at all when a
\* process hook supplied a value; it runs after every process and before
\* every postprocess invocation, and the call returns the message's value as
\* it stands after the last postprocess.
C3_FunctionInvokedIffNoValue ==
    StackedCall =>
        LET np == Cardinality(EventsOf("process"))
            fns == EventsOf("fn")
        IN /\ np >= 1
           /\ log[np].ev = "process"
           /\ (log[np].value = NoValue => Cardinality(fns) = 1)
           /\ (log[np].value # NoValue => fns = {})
           /\ \A f \in fns :
                 /\ \A i \in EventsOf("process") : i < f
                 /\ \A j \in EventsOf("postprocess") : f < j
                 /\ log[f].args = last.args
           /\ log[Len(log)].ev = "postprocess"
           /\ result = log[Len(log)].value
           /\ result = msg.value

\* A call in which a process hook supplied the value and a postprocess hook
\* replaced it afterwards.
C3_Witness ==
    /\ StackedCall
    /\ EventsOf("fn") = {}
    /\ \E i \in EventsOf("process") : log[i].value = <<"supplied">>
    /\ result = <<"overwritten">>

\* C4: on an empty stack an effectful call invokes the wrapped function
\* directly, exactly once, with the caller's arguments; no message is built,
\* no hook is called and the stack stays empty.
C4_EmptyStackCallsDirectly ==
    (last.op = "call" /\ last.before = <<>>) =>
        /\ Len(log) = 1
        /\ log[1].ev = "fn"
        /\ log[1].args = last.args
        /\ log[1].kwargs = last.kwargs
        /\ msg = NoMsg
        /\ result = Apply("fn", last.args, last.kwargs)
        /\ HANDLER_STACK = <<>>

\* A direct call that passed a name and another keyword argument.
C4_Witness ==
    /\ last.op = "call"
    /\ last.before = <<>>
    /\ last.kwargs = [name |-> "a", k |-> "1"]
    /\ result = <<"fn", last.args, "a", "1">>

\* C5: __exit__ of a handler that is not the top of the stack fails with an
\* assertion error and leaves the stack as it was; __exit__ of the top
\* handler removes exactly the top entry.
C5_ExitChecksTop ==
    (last.op = "manual_exit" /\ last.before # <<>>) =>
        LET b == last.before
        IN IF b[Len(b)] # last.h
           THEN /\ last.err = "AssertionError"
                /\ raised = "AssertionError"
                /\ HANDLER_STACK = b
           ELSE /\ last.err = NoError
                /\ raised = NoError
                /\ HANDLER_STACK = SubSeq(b, 1, Len(b) - 1)

\* An exit of a handler that is on the stack below another handler.
C5_Witness ==
    /\ last.op = "manual_exit"
    /\ last.err = "AssertionError"
    /\ Len(last.before) >= 2
    /\ last.h = last.before[1]
    /\ HANDLER_STACK = last.before

\* C6: with properly nested scopes, the stack on leaving a scope is the stack
\* on entering it, whether the body returned or raised, no exit fails, and
\* the stack is empty once every scope has been left.
C6_ScopesRestoreStack ==
    [][/\ Len(scopes') < Len(scopes) =>
             /\ HANDLER_STACK' = scopes[Len(scopes)].entry
             /\ last'.err = NoError
       /\ scopes' = <<>> => HANDLER_STACK' = <<>>]_vars

\* The outermost of several scopes was left by an error and the stack is
\* empty again.
C6_Witness ==
    /\ last.op = "unwind"
    /\ raised = "Error"
    /\ Len(last.before) = 1
    /\ scopes = <<>>
    /\ HANDLER_STACK = <<>>

\* The mapping a register call with the given post flag writes to.
MappingOf(post) == IF post THEN terms_postprocessed ELSE terms_processed

\* C7: register raises an assertion error when it is handed a term type that
\* its mapping already holds (or holds by then, from the same call), and no
\* step ever replaces or removes the override stored first for a term type.
C7_RegisterTwiceRaises ==
    [][/\ last'.op = "register" =>
             LET types == last'.types
                 m == MappingOf(last'.post)
             IN ((\E i \in 1..Len(types) : types[i] \in DOMAIN m)
                   \/ (\E i, j \in 1..Len(types) : i < j /\ types[i] = types[j]))
                => (last'.err = "AssertionError" /\ raised' = "AssertionError")
       /\ \A k \in DOMAIN terms_processed :
             k \in DOMAIN terms_processed' /\ terms_processed'[k] = terms_processed[k]
       /\ \A k \in DOMAIN terms_postprocessed :
             k \in DOMAIN terms_postprocessed' /\ terms_postprocessed'[k] = terms_postprocessed[k]
      ]_vars

\* A second registration of a term type with another override was refused
\* and the first override is still the one stored.
C7_Witness ==
    /\ last.op = "register"
    /\ last.err = "AssertionError"
    /\ Len(last.types) = 1
    /\ last.types[1] \in DOMAIN MappingOf(last.post)
    /\ MappingOf(last.post)[last.types[1]] # last.fn

\* The overrides a mapping holds for an operation kind, under the kind itself
\* or under a label of the kind.
OverridesFor(m, kind) == {m[key] : key \in {k \in DOMAIN m : k[2] = kind}}

\* The call's keyword arguments once the name has been popped.
Popped(kwargs) == [kwargs EXCEPT !.name = Absent]

\* C8: with an override registered for an operation kind, every effectful
\* call of that kind under an OpRegistry handler, whatever name it passes,
\* gets its value from the override: a process override is returned without
\* the wrapped function being invoked, a postprocess override replaces the
\* value computed so far.
C8_OverrideAppliesToKind ==
    (StackedCall /\ "reg" \in Range(HANDLER_STACK)) =>
        LET pre == OverridesFor(terms_processed, last.kind)
            pst == OverridesFor(terms_postprocessed, last.kind)
        IN /\ pre # {} => EventsOf("fn") = {}
           /\ (pre # {} /\ pst = {}) =>
                 \E ov \in pre : result = Apply(ov, last.args, Popped(last.kwargs))
           /\ pst # {} =>
                 \E ov \in pst : result = Apply(ov, last.args, Popped(last.kwargs))

(* ---------------------------------------------------------------------- *)
(* Properties of the SLDS loops                                            *)
(* ---------------------------------------------------------------------- *)
FilterDone == slds.method = "filter_and_predict" /\ slds.pc = "done"

\* C9 as stated: on T >= 2 steps filter_and_predict returns a predictive MSE
\* array of length T - 1 and a log-likelihood array of length T - 1, and with
\* smoothing also smoothed means of length T.
C9_Original ==
    (FilterDone /\ slds.T >= 2) =>
        /\ slds.err = NoError
        /\ slds.ret[1] = slds.T - 1
        /\ slds.ret[2] = slds.T - 1
        /\ slds.smoothing => slds.ret[Len(slds.ret)] = slds.T

\* C9 amended: on T >= 2 steps filter_and_predict returns a predictive MSE
\* array of length T and a log-likelihood array of length T - 1, and with
\* smoothing also the predictive means and the smoothed means, of length T.
C9_FilterShapes ==
    (FilterDone /\ slds.T >= 2) =>
        /\ slds.err = NoError
        /\ slds.ret[1] = slds.T
        /\ slds.ret[2] = slds.T - 1
        /\ IF slds.smoothing
           THEN Len(slds.ret) = 4 /\ slds.ret[3] = slds.T /\ slds.ret[4] = slds.T
           ELSE Len(slds.ret) = 2

\* A smoothing run on three or more steps has returned.
C9_Witness ==
    /\ FilterDone
    /\ slds.T >= 3
    /\ slds.smoothing
    /\ slds.ret = <<slds.T, slds.T - 1, slds.T, slds.T>>

\* C10: in log_prob with 1 <= L <= T, the pair of every step t is reduced
\* exactly once, in the loop at step t + L or else in the final loop, never
\* before it was introduced, and no free name is left when the final loop
\* ends, so the assertion holds.
C10_EveryPairReducedOnce ==
    (slds.method = "log_prob" /\ slds.L <= slds.T) =>
        /\ ~slds.early
        /\ \A i \in 1..slds.T : Len(slds.reducedAt[i]) <= 1
        /\ slds.pc = "done" =>
              /\ slds.err = NoError
              /\ slds.inputs = {}
              /\ \A t \in 0..(slds.T - 1) :
                    slds.reducedAt[t + 1] =
                        IF t + slds.L <= slds.T - 1
                        THEN << <<"loop", t + slds.L>> >>
                        ELSE << <<"final", t - (slds.T - slds.L)>> >>

\* A run with 1 < L < T has returned: some pairs were reduced in the loop
\* and some in the final loop.
C10_Witness ==
    /\ slds.method = "log_prob"
    /\ slds.pc = "done"
    /\ slds.L > 1
    /\ slds.L < slds.T
    /\ slds.err = NoError
    /\ slds.inputs = {}

(* ---------------------------------------------------------------------- *)
(* Properties of default_handler                                           *)
(* ---------------------------------------------------------------------- *)
\* The frame of the call of a function wrapped by default_handler that has
\* just been made: the innermost one, below the scope a Handler fn opened.
CalledFrame(scs, lst) ==
    IF lst.fn \in Handlers THEN scs[Len(scs) - 1] ELSE scs[Len(scs)]

\* C11: a function wrapped by default_handler(h) is run with h pushed, as
\* the only handler, exactly when the stack is empty at the call and the
\* function is no Handler; otherwise h is not pushed and the function starts
\* with the caller's stack; the stack after the call, returned or raised, is
\* the stack before it.
C11_DefaultHandlerOnlyOnEmptyStack ==
    [][/\ last'.op = "default_call" =>
             LET fr == CalledFrame(scopes', last')
             IN /\ fr.via = "default"
                /\ fr.entry = HANDLER_STACK
                /\ fr.pushed <=> (HANDLER_STACK = <<>> /\ last'.fn \notin Handlers)
                /\ fr.pushed => fr.seen = <<last'.h>>
                /\ ~fr.pushed => fr.seen = HANDLER_STACK
       /\ (Len(scopes') < Len(scopes) /\ scopes[Len(scopes)].via = "default") =>
             /\ HANDLER_STACK' = scopes[Len(scopes)].entry
             /\ last'.err = NoError]_vars

\* A plain function wrapped by default_handler was called on an empty stack
\* and is running with the default handler as the only handler.
C11_Witness ==
    /\ last.op = "default_call"
    /\ last.before = <<>>
    /\ last.fn = "function"
    /\ HANDLER_STACK = <<last.h>>
    /\ scopes[Len(scopes)].via = "default"
    /\ scopes[Len(scopes)].pushed

(* ---------------------------------------------------------------------- *)
(* Transparency of pass-through handlers                                   *)
(* ---------------------------------------------------------------------- *)
\* C12: under a stack of plain Handler instances an effectful call invokes
\* the wrapped function with the same positional and keyword arguments, and
\* returns the same value, as the same call on an empty stack.
C12_PassThroughTransparent ==
    (StackedCall /\ Range(HANDLER_STACK) = {"h"}) =>
        LET direct == effectful(<<>>, last.kind, "fn", last.args, last.kwargs)
            fns == EventsOf("fn")
        IN /\ Cardinality(fns) = 1
           /\ \A f \in fns : /\ log[f].args = direct.log[1].args
                             /\ log[f].kwargs = direct.log[1].kwargs
           /\ result = direct.value

(* ---------------------------------------------------------------------- *)
(* Effect of register on the two mappings                                  *)
(* ---------------------------------------------------------------------- *)
\* C13 as stated: a register call that raises leaves both mappings as they
\* were, and a successful one changes only the mapping chosen by post.
C13_Original ==
    [][last'.op = "register" =>
          IF last'.err # NoError
          THEN /\ terms_processed' = terms_processed
               /\ terms_postprocessed' = terms_postprocessed
          ELSE IF last'.post THEN terms_processed' = terms_processed
               ELSE terms_postprocessed' = terms_postprocessed]_vars

\* The positions of the term types that are already in the mapping, or that
\* repeat an earlier term type of the same call.
Refused(types, m) ==
    {i \in 1..Len(types) :
        types[i] \in DOMAIN m \/ \E j \in 1..(i - 1) : types[j] = types[i]}

\* The number of term types register writes: those before the first refused
\* one, all of them when none is refused.
Written(types, m) ==
    IF Refused(types, m) = {} THEN Len(types)
    ELSE (CHOOSE i \in Refused(types, m) : \A j \in Refused(types, m) : i <= j) - 1

\* C13 amended: a register call that raises leaves the mapping not chosen by
\* post and every entry stored before as they were, but has added to the
\* chosen mapping the term types listed before the first one that is
\* already registered; a successful call adds all its term types to the
\* chosen mapping and changes nothing else.
C13_RegisterWritesPrefix ==
    [][last'.op = "register" =>
          LET types == last'.types
              m == MappingOf(last'.post)
              m2 == IF last'.post THEN terms_postprocessed' ELSE terms_processed'
              n == Written(types, m)
          IN /\ (last'.err # NoError) <=> (Refused(types, m) # {})
             /\ IF last'.post THEN terms_processed' = terms_processed
                ELSE terms_postprocessed' = terms_postprocessed
             /\ DOMAIN m2 = DOMAIN m \cup {types[i] : i \in 1..n}
             /\ \A k \in DOMAIN m : m2[k] = m[k]
             /\ \A i \in 1..n : m2[types[i]] = last'.fn]_vars

\* A call with two term types was refused at the second one and the first
\* one is registered all the same.
C13_Witness ==
    /\ last.op = "register"
    /\ last.err = "AssertionError"
    /\ Len(last.types) = 2
    /\ last.types[1] # last.types[2]
    /\ DOMAIN MappingOf(last.post) = {last.types[1], last.types[2]}
    /\ MappingOf(last.post)[last.types[1]] = last.fn
    /\ MappingOf(last.post)[last.types[2]] # last.fn

====
